---- MODULE Spec2Model ----
(***************************************************************************)
(* A model of xarray-csv-reader.py: read_sweep_csv classifies the columns  *)
(* of a CSV file as coordinates, variables and constant metadata from the  *)
(* number of distinct values of each column, checks that the coordinate    *)
(* cardinalities multiply to the row count and reshapes the table into a   *)
(* labeled container; read_netlogo_table wraps it for NetLogo exports.     *)
(*                                                                         *)
(* A CSV file is a sequence of lines, each a sequence of cells.  pandas'    *)
(* read_csv is modelled by ReadCsv (header line after `skiprows` lines,     *)
(* then at most `nrows` data lines, restricted to `usecols`, file column   *)
(* order kept).  Optional arguments are modelled as sets: {} is Python's   *)
(* None and {x} is the value x.                                            *)
(***************************************************************************)
EXTENDS Integers, Sequences, FiniteSets, TLC

\* Largest number of data rows of the tables with arbitrary cell values.
MaxRows == 3
\* Largest number of data rows of the tables built from periodic columns.
MaxGridRows == 6
\* Cell values of the tables with arbitrary cell values.
Values == {1, 2}
\* Repetition lengths of the periodic columns: value = ((row \div d) % c) + 1.
Strides == {1, 2}

None == {}
Some(x) == {x}
Get(o) == CHOOSE x \in o : TRUE

Range(s) == {s[k] : k \in DOMAIN s}
Min(a, b) == IF a < b THEN a ELSE b
IndexOf(s, x) == CHOOSE k \in DOMAIN s : s[k] = x

RECURSIVE Filter(_, _)
\* The subsequence of s of the elements in keep, order kept.
Filter(s, keep) ==
    IF s = <<>> THEN <<>>
    ELSE IF Head(s) \in keep THEN <<Head(s)>> \o Filter(Tail(s), keep)
    ELSE Filter(Tail(s), keep)

RECURSIVE SortedSeq(_)
\* The elements of a finite set of integers in ascending order.
SortedSeq(S) ==
    IF S = {} THEN <<>>
    ELSE LET m == CHOOSE x \in S : \A y \in S : x <= y
         IN <<m>> \o SortedSeq(S \ {m})

----------------------------------------------------------------------------
(* pandas.read_csv *)

\* pd.read_csv(path, skiprows=, nrows=, usecols=): a dataframe, as the
\* sequence of its column names and the sequence of its rows (row 0 of the
\* default RangeIndex is rows[1]).
ReadCsv(path, skiprows, nrows, usecols) ==
    LET header == path[skiprows + 1]
        avail == Len(path) - skiprows - 1
        n == IF nrows = None THEN avail ELSE Min(Get(nrows), avail)
        keep == IF usecols = None THEN Range(header) ELSE Get(usecols)
        cols == Filter(header, keep)
    IN [columns |-> cols,
        rows |-> [r \in 1..n |->
                    [c \in Range(cols) |->
                        path[skiprows + 1 + r][IndexOf(header, c)]]]]

\* line 88: read_netlogo_table passes skiprows=6; read_sweep_csv called
\* directly is modelled without reader options.
NetlogoSkipRows == 6
NetlogoSkipCols == {"[run number]"}
SkipRowsOf(e) == IF e = "netlogo" THEN NetlogoSkipRows ELSE 0

\* Usecols with the set difference forgotten.
UsecolsAll(cols, skip) ==
    IF skip # None THEN Some(Range(cols)) ELSE None

\* lines 25-28: the set of columns to read.
Usecols(cols, skip) ==
    IF skip # None THEN Some(Range(cols) \ Get(skip)) ELSE None

----------------------------------------------------------------------------
(* classification *)

\* line 33: len(pd.unique(x)) of every column.  For a table without rows
\* pandas gives 0 or NaN depending on its version; both fail `value == 1`
\* and both leave `cumproduct < length` false, so the loop treats them alike.
UniqueCounts(d) ==
    [c \in Range(d.columns) |->
        Cardinality({d.rows[r][c] : r \in DOMAIN d.rows})]

\* IsSorted with the sort left out: the columns in any order.
IsSortedAny(keys, counts) == TRUE

\* line 33: sort_values() puts the columns in ascending order of count; the
\* order among equal counts is left to the sort.
IsSorted(keys, counts) ==
    \A a, b \in DOMAIN keys : a < b => counts[keys[a]] <= counts[keys[b]]

SortValues(counts) ==
    LET n == Cardinality(DOMAIN counts)
    IN {k \in [1..n -> DOMAIN counts] :
            /\ \A a, b \in 1..n : a # b => k[a] # k[b]
            /\ IsSorted(k, counts)}

\* LoopInit with the flag starting set.
LoopInitValid == [cumproduct |-> 1, coord |-> <<>>, var |-> <<>>, valid |-> TRUE]

\* lines 38-40: the loop's state before the first column.
LoopInit == [cumproduct |-> 1, coord |-> <<>>, var |-> <<>>, valid |-> FALSE]

\* LoopBody with `cumproduct <= length` for `cumproduct < length`.
LoopBodyLE(st, col, value, len) ==
    IF value = 1 THEN st
    ELSE IF st.cumproduct <= len
    THEN [st EXCEPT !.coord = Append(@, col),
                    !.cumproduct = @ * value,
                    !.valid = IF st.cumproduct * value = len THEN TRUE ELSE @]
    ELSE [st EXCEPT !.var = Append(@, col)]

\* LoopBody with the flag set by `cumproduct >= length`.
LoopBodyGE(st, col, value, len) ==
    IF value = 1 THEN st
    ELSE IF st.cumproduct < len
    THEN [st EXCEPT !.coord = Append(@, col),
                    !.cumproduct = @ * value,
                    !.valid = IF st.cumproduct * value >= len THEN TRUE ELSE @]
    ELSE [st EXCEPT !.var = Append(@, col)]

\* LoopBody without the `value == 1` branch.
LoopBodyNoSkip(st, col, value, len) ==
    IF st.cumproduct < len
    THEN [st EXCEPT !.coord = Append(@, col),
                    !.cumproduct = @ * value,
                    !.valid = IF st.cumproduct * value = len THEN TRUE ELSE @]
    ELSE [st EXCEPT !.var = Append(@, col)]

\* lines 47-60: one iteration of the loop, on column col with count value.
LoopBody(st, col, value, len) ==
    IF value = 1 THEN st
    ELSE IF st.cumproduct < len
    THEN [st EXCEPT !.coord = Append(@, col),
                    !.cumproduct = @ * value,
                    !.valid = IF st.cumproduct * value = len THEN TRUE ELSE @]
    ELSE [st EXCEPT !.var = Append(@, col)]

\* lines 47-60: the role an iteration gave its column, read off what it
\* appended to.
RoleOf(st, nx) ==
    IF nx.coord # st.coord THEN "coord"
    ELSE IF nx.var # st.var THEN "var" ELSE "constant"

\* line 69: the columns with one unique value.
MetaCols(vc) == Filter(vc.keys, {c \in Range(vc.keys) : vc.counts[c] = 1})

----------------------------------------------------------------------------
(* container *)

AttrScalar(v) == [scalar |-> v]
AttrList(l) == [list |-> l]
NaN == "NaN"

\* BuildAttrs with the values taken in the dataframe's column order while
\* the keys are in meta_cols' order.
BuildAttrsMisaligned(d, meta) ==
    LET inFrameOrder == Filter(d.columns, Range(meta))
    IN [c \in Range(meta) |->
            [scalar |-> d.rows[1][inFrameOrder[IndexOf(meta, c)]]]]

\* line 76: dict(zip(meta_cols, df.loc[0, meta_cols].values))
BuildAttrs(d, meta) == [c \in Range(meta) |-> AttrScalar(d.rows[1][c])]

\* The coordinate-value tuple of a row.
KeyOf(row, coord) == [k \in DOMAIN coord |-> row[coord[k]]]

\* line 73: set_index(coord) yields an index with a repeated entry.
HasDuplicateIndex(d, coord) ==
    \E r1, r2 \in DOMAIN d.rows :
        r1 # r2 /\ KeyOf(d.rows[r1], coord) = KeyOf(d.rows[r2], coord)

\* line 74: the axis of a coordinate: the sorted levels of a MultiIndex, or
\* the index as it stands when there is one coordinate.
Axis(d, coord, c) ==
    IF Len(coord) = 1 THEN [r \in DOMAIN d.rows |-> d.rows[r][c]]
    ELSE SortedSeq({d.rows[r][c] : r \in DOMAIN d.rows})

\* The grid cells: the combinations of values of the coordinates.
Cells(d, coord) ==
    {t \in [DOMAIN coord -> UNION {Range(Axis(d, coord, coord[k])) : k \in DOMAIN coord}] :
        \A k \in DOMAIN coord : t[k] \in Range(Axis(d, coord, coord[k]))}

RowsAt(d, coord, cell) == {r \in DOMAIN d.rows : KeyOf(d.rows[r], coord) = cell}

\* lines 72-77: df[coord+var].set_index(coord).to_xarray().assign_attrs(...)
ToXarray(d, coord, var, attrs) ==
    [dims |-> coord,
     coords |-> [c \in Range(coord) |-> Axis(d, coord, c)],
     data_vars |-> [v \in Range(var) |->
                      [cell \in Cells(d, coord) |->
                          IF RowsAt(d, coord, cell) = {} THEN NaN
                          ELSE d.rows[CHOOSE r \in RowsAt(d, coord, cell) : TRUE][v]]],
     attrs |-> attrs]

NoDataset == [dims |-> <<>>, coords |-> <<>>, data_vars |-> <<>>, attrs |-> <<>>]

\* lines 91-94: the preamble record.
ModelInfo(path) ==
    LET top == ReadCsv(path, 0, Some(3), None)
        settings == ReadCsv(path, 4, Some(1), None)
        flat == [k \in 1..(Len(top.rows) * Len(top.columns)) |->
                    top.rows[((k - 1) \div Len(top.columns)) + 1]
                            [top.columns[((k - 1) % Len(top.columns)) + 1]]]
    IN top.columns \o flat \o <<settings.rows[1]>>

\* line 97: ds.attrs['Metadata'] = model_info
SetAttr(attrs, key, value) ==
    [k \in DOMAIN attrs \cup {key} |-> IF k = key THEN value ELSE attrs[k]]

----------------------------------------------------------------------------
(* inputs *)

\* The six lines a NetLogo BehaviorSpace table export starts with.
Preamble ==
    << <<"BehaviorSpace results">>, <<"model.nlogo">>, <<"experiment">>,
       <<"01/01/2020">>, <<"min-pxcor", "max-pxcor">>, <<"-16", "16">> >>

\* The calls: the entry point, the header line of the table and skipcols.
Calls ==
    {[entry |-> "sweep", cols |-> h, skipcols |-> None] :
        h \in {<<"A">>, <<"A", "B">>, <<"A", "B", "V">>}}
    \cup {[entry |-> "sweep", cols |-> <<"A", "B", "V">>, skipcols |-> Some(s)] :
        s \in {{}, {"B"}, {"V", "extra"}, {"A", "B"}}}
    \cup {[entry |-> "netlogo", cols |-> h, skipcols |-> Some(NetlogoSkipCols)] :
        h \in {<<"[run number]", "A", "Metadata">>, <<"A", "[run number]", "B">>}}

\* Data lines with arbitrary cells.
SmallTables(ncols) ==
    UNION {[1..n -> [1..ncols -> Values]] : n \in 0..MaxRows}

\* Data lines whose columns are periodic: column k takes p[k].c values, each
\* repeated p[k].d times.
Periodic(n, ncols, p) ==
    [r \in 1..n |-> [k \in 1..ncols |-> (((r - 1) \div p[k].d) % p[k].c) + 1]]

GridTables(ncols) ==
    UNION {{Periodic(n, ncols, p) :
                p \in [1..ncols -> [c : 1..n, d : Strides]]} :
           n \in 0..MaxGridRows}

Tables(ncols) == SmallTables(ncols) \cup GridTables(ncols)

FileOf(call, table) ==
    (IF call.entry = "netlogo" THEN Preamble ELSE <<>>) \o <<call.cols>> \o table

----------------------------------------------------------------------------
(* state *)

VARIABLES
    entry,         \* "sweep": read_sweep_csv called directly; "netlogo"
    path,          \* the file: its lines
    skipcols,      \* the skipcols argument
    pc,            \* the position in the code
    columns,       \* line 22
    usecols,       \* lines 25-28
    df,            \* line 30
    value_counts,  \* line 33: [keys: sorted column names, counts]
    length,        \* line 35
    cumproduct,    \* line 38
    coord,         \* line 39
    var,           \* line 39
    valid,         \* line 40
    pos,           \* the loop's position in value_counts
    log,           \* history: what each iteration of the loop did
    ds,            \* the dataset
    err            \* the exception raised, "" when none

vars == <<entry, path, skipcols, pc, columns, usecols, df, value_counts, length,
          cumproduct, coord, var, valid, pos, log, ds, err>>

NoFrame == [columns |-> <<>>, rows |-> <<>>]
NoCounts == [keys |-> <<>>, counts |-> <<>>]

Init ==
    /\ \E call \in Calls :
         \E table \in Tables(Len(call.cols)) :
            /\ entry = call.entry
            /\ skipcols = call.skipcols
            /\ path = FileOf(call, table)
    /\ pc = "columns"
    /\ columns = <<>>
    /\ usecols = None
    /\ df = NoFrame
    /\ value_counts = NoCounts
    /\ length = 0
    /\ cumproduct = 1
    /\ coord = <<>>
    /\ var = <<>>
    /\ valid = FALSE
    /\ pos = 1
    /\ log = <<>>
    /\ ds = NoDataset
    /\ err = ""

\* lines 22-28
ReadColumns ==
    /\ pc = "columns"
    /\ columns' = ReadCsv(path, SkipRowsOf(entry), Some(0), None).columns
    /\ usecols' = Usecols(columns', skipcols)
    /\ pc' = "frame"
    /\ UNCHANGED <<entry, path, skipcols, df, value_counts, length, cumproduct,
                   coord, var, valid, pos, log, ds, err>>

\* line 30
ReadDataFrame ==
    /\ pc = "frame"
    /\ df' = ReadCsv(path, SkipRowsOf(entry), None, usecols)
    /\ pc' = "count"
    /\ UNCHANGED <<entry, path, skipcols, columns, usecols, value_counts, length,
                   cumproduct, coord, var, valid, pos, log, ds, err>>

\* lines 33-40
CountUnique ==
    /\ pc = "count"
    /\ \E keys \in SortValues(UniqueCounts(df)) :
         value_counts' = [keys |-> keys, counts |-> UniqueCounts(df)]
    /\ length' = Len(df.rows)
    /\ cumproduct' = LoopInit.cumproduct
    /\ coord' = LoopInit.coord
    /\ var' = LoopInit.var
    /\ valid' = LoopInit.valid
    /\ pos' = 1
    /\ pc' = "loop"
    /\ UNCHANGED <<entry, path, skipcols, columns, usecols, df, log, ds, err>>

\* lines 44-60: one iteration
LoopStep ==
    /\ pc = "loop"
    /\ pos <= Len(value_counts.keys)
    /\ LET col == value_counts.keys[pos]
           value == value_counts.counts[col]
           st == [cumproduct |-> cumproduct, coord |-> coord, var |-> var,
                  valid |-> valid]
           nx == LoopBody(st, col, value, length)
       IN /\ cumproduct' = nx.cumproduct
          /\ coord' = nx.coord
          /\ var' = nx.var
          /\ valid' = nx.valid
          /\ log' = Append(log, [col |-> col, role |-> RoleOf(st, nx),
                                 before |-> cumproduct, after |-> nx.cumproduct])
    /\ pos' = pos + 1
    /\ UNCHANGED <<entry, path, skipcols, pc, columns, usecols, df, value_counts,
                   length, ds, err>>

\* lines 63-66
CheckValid ==
    /\ pc = "loop"
    /\ pos > Len(value_counts.keys)
    /\ IF ~valid
       THEN pc' = "raised" /\ err' = "RuntimeError"
       ELSE pc' = "build" /\ err' = err
    /\ UNCHANGED <<entry, path, skipcols, columns, usecols, df, value_counts,
                   length, cumproduct, coord, var, valid, pos, log, ds>>

\* lines 69-80: to_xarray refuses an index with repeated entries
BuildDataset ==
    /\ pc = "build"
    /\ IF HasDuplicateIndex(df, coord)
       THEN pc' = "raised" /\ err' = "ValueError" /\ ds' = ds
       ELSE /\ ds' = ToXarray(df, coord, var, BuildAttrs(df, MetaCols(value_counts)))
            /\ pc' = "returned"
            /\ err' = err
    /\ UNCHANGED <<entry, path, skipcols, columns, usecols, df, value_counts,
                   length, cumproduct, coord, var, valid, pos, log>>

\* lines 91-99
NetlogoMetadata ==
    /\ pc = "returned"
    /\ entry = "netlogo"
    /\ ds' = [ds EXCEPT !.attrs = SetAttr(@, "Metadata", AttrList(ModelInfo(path)))]
    /\ pc' = "done"
    /\ UNCHANGED <<entry, path, skipcols, columns, usecols, df, value_counts,
                   length, cumproduct, coord, var, valid, pos, log, err>>

Next ==
    \/ ReadColumns
    \/ ReadDataFrame
    \/ CountUnique
    \/ LoopStep
    \/ CheckValid
    \/ BuildDataset
    \/ NetlogoMetadata

Spec == Init /\ [][Next]_vars

----------------------------------------------------------------------------
(* vocabulary of the properties *)

\* The number of distinct values of column c of the dataframe.
Card(c) == Cardinality({df.rows[r][c] : r \in DOMAIN df.rows})
Retained == Range(df.columns)
NumRows == Len(df.rows)
Constants == {c \in Retained : Card(c) = 1}
CardOf == [c \in Retained |-> Card(c)]

RECURSIVE Product(_, _)
\* The product of f[c] over the elements c of the sequence s.
Product(s, f) == IF s = <<>> THEN 1 ELSE f[Head(s)] * Product(Tail(s), f)

RECURSIVE SetProduct(_)
\* The product of the cardinalities of a set of columns.
SetProduct(S) ==
    IF S = {} THEN 1
    ELSE LET c == CHOOSE x \in S : TRUE IN Card(c) * SetProduct(S \ {c})

\* The loop has run to its end.
LoopEnded == \/ pc = "loop" /\ pos > Len(value_counts.keys)
             \/ pc \in {"build", "raised", "returned", "done"}
\* The check of lines 63-66 has been made.
Checked == pc \in {"build", "raised", "returned", "done"}
ShapeError == pc = "raised" /\ err = "RuntimeError"
\* The check of lines 63-66 has been passed.
PassedCheck == Checked /\ ~ShapeError
\* read_sweep_csv has returned a container.
Returned == pc \in {"returned", "done"}

\* The non-constant retained columns in the ascending order of the loop.
NonConstant == Filter(value_counts.keys, {c \in Retained : Card(c) # 1})
PrefixProduct(k) == Product(SubSeq(NonConstant, 1, k), CardOf)

----------------------------------------------------------------------------
(* C1 *)

NoSubsetMatches == \A S \in SUBSET Retained : SetProduct(S) # NumRows

\* C1: when no subset of the retained columns has a product of cardinalities
\* equal to the row count, read_sweep_csv ends with the shape-mismatch error
\* and returns no container.
C1_NoSubsetFails ==
    (Checked /\ NoSubsetMatches) => (ShapeError /\ ds = NoDataset)

C1_Witness ==
    /\ ShapeError
    /\ NoSubsetMatches
    /\ \E a, b \in Retained : a # b /\ Card(a) = 2 /\ Card(b) = 3

----------------------------------------------------------------------------
(* C6 *)

\* C6 as stated: the error is raised exactly when no prefix, the empty one
\* included, of the non-constant columns in ascending order has a product
\* equal to the row count; the flag is true at the end of the loop exactly
\* when the running product, its initial value 1 included, equalled the row
\* count at some point.
C6_Original ==
    /\ Checked =>
         (ShapeError <=> ~\E k \in 0..Len(NonConstant) : PrefixProduct(k) = NumRows)
    /\ LoopEnded =>
         (valid <=> length \in ({1} \cup {log[j].after : j \in DOMAIN log}))

\* C6 amended: the error is raised exactly when the table has no rows or no
\* non-empty prefix of the non-constant columns in ascending order has a
\* product equal to the row count; the flag is true at the end of the loop
\* exactly when the running product equalled the row count right after a
\* column was added to the coordinates.
C6_NonEmptyPrefix ==
    /\ Checked =>
         (ShapeError <=>
            \/ NumRows = 0
            \/ ~\E k \in 1..Len(NonConstant) : PrefixProduct(k) = NumRows)
    /\ LoopEnded =>
         (valid <=> \E j \in DOMAIN log :
                        log[j].role = "coord" /\ log[j].after = length)

C6_Witness == ShapeError /\ NumRows = 1 /\ cumproduct = length

----------------------------------------------------------------------------
(* C7 *)

C7_ProductIsLength == Returned => Product(coord, CardOf) = NumRows

C7_Frozen == valid => (coord' = coord /\ cumproduct' = cumproduct)

\* C7: in every returned container the product of the cardinalities of the
\* coordinates equals the row count; once the flag is set no column is added
\* to the coordinates and the running product does not change.
C7_ExactProduct == [](C7_ProductIsLength) /\ [][C7_Frozen]_vars

C7_Witness ==
    /\ Returned
    /\ Len(coord) = 2
    /\ Len(var) = 1
    /\ Card(coord[1]) * Card(coord[2]) = NumRows

----------------------------------------------------------------------------
(* C8 *)

\* C8: at the end of the loop the coordinates, the variables and the
\* constants are pairwise disjoint and cover the retained columns, each
\* column being listed once; the constants are the columns of cardinality 1
\* (the columns line 69 selects), and an iteration on a constant leaves the
\* running product alone.
C8_Partition ==
    LoopEnded =>
        /\ Range(coord) \cap Range(var) = {}
        /\ Range(coord) \cap Constants = {}
        /\ Range(var) \cap Constants = {}
        /\ Range(coord) \cup Range(var) \cup Constants = Retained
        /\ Len(coord) = Cardinality(Range(coord))
        /\ Len(var) = Cardinality(Range(var))
        /\ Range(MetaCols(value_counts)) = Constants
        /\ \A j \in DOMAIN log :
              (log[j].col \in Constants) <=> (log[j].role = "constant")
        /\ \A j \in DOMAIN log :
              log[j].col \in Constants => log[j].after = log[j].before

C8_Witness ==
    /\ pc = "loop"
    /\ pos > Len(value_counts.keys)
    /\ coord # <<>>
    /\ var # <<>>
    /\ Constants # {}

----------------------------------------------------------------------------
(* C10 *)

\* C10: in every returned container every coordinate has cardinality at
\* least 2 and at most that of every variable, the coordinates are listed in
\* non-decreasing cardinality, and every variable was classified when the
\* running product equalled the row count.
C10_SmallestAreCoords ==
    Returned =>
        /\ \A c \in Range(coord) : Card(c) >= 2
        /\ \A c \in Range(coord) : \A v \in Range(var) : Card(c) <= Card(v)
        /\ \A a, b \in DOMAIN coord : a < b => Card(coord[a]) <= Card(coord[b])
        /\ \A j \in DOMAIN log : log[j].role = "var" => log[j].before = NumRows

C10_Witness ==
    /\ Returned
    /\ Len(coord) = 2
    /\ Card(coord[1]) < Card(coord[2])
    /\ \E v \in Range(var) : Card(coord[2]) < Card(v)

----------------------------------------------------------------------------
(* C2 *)

\* Columns a and b form a full grid with fewer values of a than of b (and a
\* varies, as an axis does), and v is the one other retained column.
IsGrid(a, b, v) ==
    /\ Retained = {a, b, v}
    /\ a # b /\ a # v /\ b # v
    /\ 2 <= Card(a)
    /\ Card(a) < Card(b)
    /\ NumRows = Card(a) * Card(b)
    /\ \A r1, r2 \in DOMAIN df.rows :
          (df.rows[r1][a] = df.rows[r2][a] /\ df.rows[r1][b] = df.rows[r2][b])
              => r1 = r2

\* The container of shape (m, n) on [a, b] holding v.
IsGridResult(a, b, v) ==
    /\ Returned
    /\ coord = <<a, b>>
    /\ var = <<v>>
    /\ ds.dims = <<a, b>>
    /\ DOMAIN ds.data_vars = {v}
    /\ Len(ds.coords[a]) = Card(a)
    /\ Len(ds.coords[b]) = Card(b)
    /\ Cardinality(DOMAIN ds.data_vars[v]) = Card(a) * Card(b)
    /\ \A r \in DOMAIN df.rows :
          ds.data_vars[v][<<df.rows[r][a], df.rows[r][b]>>] = df.rows[r][v]

\* read_sweep_csv has ended, with an exception or a container.
Ended == pc \in {"raised", "returned", "done"}

\* C2 as stated: on a full grid of A (m values) and B (n values, m < n) with
\* a third column V, whatever the values of V and the order of the columns,
\* the result has coordinates [A, B], variables [V], shape (m, n) and at
\* each cell the V of the row of that cell.
C2_Original ==
    Ended => \A a, b, v \in Retained : IsGrid(a, b, v) => IsGridResult(a, b, v)

\* C2 amended: the same, for a V that takes more than n distinct values.
C2_GridRoundTrip ==
    Ended => \A a, b, v \in Retained :
                (IsGrid(a, b, v) /\ Card(v) > Card(b)) => IsGridResult(a, b, v)

C2_Witness ==
    /\ Returned
    /\ \E a, b, v \in Retained :
          /\ IsGrid(a, b, v) /\ Card(v) > Card(b) /\ Card(a) = 2 /\ Card(b) = 3
          /\ df.columns = <<v, b, a>>
          /\ IsGridResult(a, b, v)

----------------------------------------------------------------------------
(* C3 *)

\* C3: the container read_sweep_csv returns has one metadata entry for each
\* retained column that takes a single value, keyed by its name and holding
\* that value; such a column is neither coordinate nor variable, and no
\* other column has an entry.
C3_ConstantsAreMetadata ==
    pc = "returned" =>
        /\ DOMAIN ds.attrs = Constants
        /\ \A c \in Constants : \A r \in DOMAIN df.rows :
              ds.attrs[c] = AttrScalar(df.rows[r][c])
        /\ Constants \cap (Range(ds.dims) \cup DOMAIN ds.coords) = {}
        /\ Constants \cap DOMAIN ds.data_vars = {}

C3_Witness ==
    /\ pc = "returned"
    /\ Cardinality(Constants) = 2
    /\ \E c, e \in Constants : df.rows[1][c] # df.rows[1][e]
    /\ df.columns[1] \notin Constants

----------------------------------------------------------------------------
(* C4 *)

RECURSIVE Classify(_, _, _, _)
\* lines 44-60: the loop over the columns keys, from the state st.
Classify(keys, counts, len, st) ==
    IF keys = <<>> THEN st
    ELSE Classify(Tail(keys), counts, len,
                  LoopBody(st, Head(keys), counts[Head(keys)], len))

\* lines 33-80: what read_sweep_csv makes of the dataframe d when the sort
\* yields the order keys: the exception and the container.
SweepOutcome(d, keys) ==
    LET counts == UniqueCounts(d)
        st == Classify(keys, counts, Len(d.rows), LoopInit)
        vc == [keys |-> keys, counts |-> counts]
    IN IF ~st.valid THEN [err |-> "RuntimeError", ds |-> NoDataset]
       ELSE IF HasDuplicateIndex(d, st.coord)
       THEN [err |-> "ValueError", ds |-> NoDataset]
       ELSE [err |-> "",
             ds |-> ToXarray(d, st.coord, st.var, BuildAttrs(d, MetaCols(vc)))]

\* The line with the cells at the positions drop removed.
DropCells(line, drop) ==
    LET kept == SortedSeq(DOMAIN line \ drop)
    IN [k \in DOMAIN kept |-> line[kept[k]]]

\* The file with the columns named in S removed from the table that starts
\* after skiprows lines.
RemoveColumns(file, skiprows, S) ==
    LET header == file[skiprows + 1]
        drop == {k \in DOMAIN header : header[k] \in S}
    IN [n \in DOMAIN file |->
            IF n <= skiprows THEN file[n] ELSE DropCells(file[n], drop)]

Skipped == IF skipcols = None THEN {} ELSE Get(skipcols)

\* The dataframe read without skipcols from the file with the skipped
\* columns removed beforehand.
FrameOfRemoved ==
    ReadCsv(RemoveColumns(path, SkipRowsOf(entry), Skipped),
            SkipRowsOf(entry), None, None)

\* C4: read_sweep_csv with skipcols=S ends as read_sweep_csv without
\* skipcols ends on the file with the columns of S removed beforehand (same
\* exception, or same coordinates, variables, cells and metadata), and no
\* skipped column is a coordinate, a variable or a metadata key.
C4_SkipIsRemoval ==
    (pc \in {"raised", "returned"}) =>
        /\ value_counts.keys \in SortValues(UniqueCounts(FrameOfRemoved))
        /\ [err |-> err, ds |-> ds] = SweepOutcome(FrameOfRemoved, value_counts.keys)
        /\ Skipped \cap (Range(coord) \cup Range(var) \cup DOMAIN ds.attrs) = {}

C4_Witness ==
    /\ pc = "returned"
    /\ skipcols # None
    /\ \E c \in Skipped \cap Range(columns) :
          \E r \in 2..(Len(path) - SkipRowsOf(entry)) :
             path[SkipRowsOf(entry) + r][IndexOf(columns, c)]
                # path[SkipRowsOf(entry) + 2][IndexOf(columns, c)]

----------------------------------------------------------------------------
(* C5 *)

\* C5 as stated: in the container read_netlogo_table returns the preamble
\* record is under the key Metadata and every constant-column entry that
\* read_sweep_csv attached is still there with its value, whatever the
\* names of the columns.
C5_ConstantsKept ==
    (pc = "done") =>
        /\ "Metadata" \in DOMAIN ds.attrs
        /\ \A c \in Constants :
              c \in DOMAIN ds.attrs /\ ds.attrs[c] = AttrScalar(df.rows[1][c])

----------------------------------------------------------------------------
(* C9 *)

ExactlyOneRowPerCell ==
    \A cell \in Cells(df, coord) : Cardinality(RowsAt(df, coord, cell)) = 1

\* C9 as stated: whenever the validity check passes, every grid cell is
\* matched by exactly one row.
C9_Original == PassedCheck => ExactlyOneRowPerCell

\* C9 amended: whenever the validity check passes and no two rows share
\* their coordinate values, every grid cell is matched by exactly one row,
\* and each variable of the container holds at a cell the value of that row.
C9_UniqueRowPerCell ==
    (PassedCheck /\ ~HasDuplicateIndex(df, coord)) =>
        /\ ExactlyOneRowPerCell
        /\ Returned =>
             \A v \in Range(var) : \A r \in DOMAIN df.rows :
                ds.data_vars[v][KeyOf(df.rows[r], coord)] = df.rows[r][v]

C9_Witness ==
    /\ Returned
    /\ Len(coord) = 2
    /\ var # <<>>
    /\ NumRows >= 6

====
